---- MODULE Spec2Model ----
(***************************************************************************)
(* A model of scripts/generate_brief.py: the daily-brief generator.        *)
(*                                                                         *)
(* Calendar dates ("YYYY-MM-DD" strings, compared lexicographically) are   *)
(* modelled by the naturals 1..MaxDate in the same order; NoDate (0)       *)
(* stands for a record without a "date" key, whose sort key is "", the     *)
(* least string.  Text is a sequence of one-character strings.             *)
(***************************************************************************)
EXTENDS Integers, Sequences, FiniteSets, TLC

VARIABLES
    file,       \* content of BRIEFS_FILE: [kind, data]
    orig,       \* content of BRIEFS_FILE before the run(s) under study
    merged,     \* the set of run dates merged so far
    dropped,    \* whether the latest merge cut its own record off at the cap
    replaced,   \* whether the latest merge replaced a different entry of its date
    pc,         \* position of main()
    today,      \* today_str of the run
    brief,      \* the record under construction in main()
    briefs,     \* the local `briefs` of main(): the value loaded from the file
    raisedAt,   \* the step of main() an exception escaped from, or "none"
    faults,     \* how many upstream answers of this run were out of the ordinary
    text,       \* argument `text` of summarize_text
    max_len,    \* argument `max_len` of summarize_text
    out,        \* result of summarize_text (NotRun before the call)
    quotes,     \* per symbol: the ask price of its latest quote, or NoQuote
    bars,       \* per symbol: the closes of the daily bars the source answers
    fault,      \* which batch fetch of get_markets raises, or "none"
    items,      \* the list get_markets returned (<<>> before it returns)
    skip,       \* TextExtractor._skip
    segments,   \* TextExtractor.segments
    events,     \* the parser events fed to the TextExtractor so far
    cpc,        \* per concurrent run: position in main()
    cbriefs,    \* per concurrent run: its local `briefs`
    tornRead    \* whether a run has read the file while another had it truncated

archiveVars == <<merged, dropped, replaced>>
mainVars    == <<pc, today, brief, briefs, raisedAt, faults>>
summVars    == <<text, max_len, out>>
marketVars  == <<quotes, bars, fault, items>>
parserVars  == <<skip, segments, events>>
concVars    == <<cpc, cbriefs, tornRead>>
vars == <<file, orig, archiveVars, mainVars, summVars, marketVars, parserVars, concVars>>

\* ---------------------------------------------------------------- bounds
MaxDate  == 32      \* run dates are 1..MaxDate
MaxLate  == 2       \* the dates 1..MaxLate are merged at any time, later ones in order
MaxRegen == 1       \* the dates 1..MaxRegen are the days that are run again later

MaxText  == 5       \* length of the texts given to summarize_text
MaxBudget == 4      \* length budgets given to summarize_text are 0..MaxBudget
MaxEvents == 4      \* parser events fed to one TextExtractor
MaxPrice == 2       \* ask prices and closes are 0..MaxPrice
MaxFaults == 1      \* upstream answers of one run that are out of the ordinary
MaxDay   == 2       \* dates in a pre-existing archive file, and run dates of main()
MaxFile  == 2       \* records in a pre-existing archive file
MaxRuns  == 2       \* invocations of main() that overlap on the archive file

\* ------------------------------------------------------ program constants
MAX_ENTRIES == 30
SYMBOLS == <<"SPY", "DIA", "QQQ">>
FEEDS == <<"World", "Middle East/Global", "Tech">>
SKIP_TAGS == {"script", "style", "noscript", "svg", "head"}
LOCATION == "Los Angeles, CA"
DefaultMaxLen == 180    \* summarize_text(text, max_len=180)
SummaryCut == 180       \* n.summary[:180] + "..."

NoDate  == 0
NoBrief == [date |-> NoDate, generatedAt |-> 0, markets |-> <<>>,
            marketNews |-> <<>>, weather |-> <<>>, news |-> <<>>]
NotRun  == <<"not run">>
Written(list) == [kind |-> "list", data |-> list]

\* --------------------------------------------------------------- helpers
SetMax(S) == CHOOSE m \in S : \A e \in S : e <= m
Range(s) == {s[i] : i \in 1..Len(s)}
Front(s) == SubSeq(s, 1, Len(s) - 1)
Prefix(s, n) == SubSeq(s, 1, IF n < Len(s) THEN n ELSE Len(s))

\* ------------------------------------------------------- summarize_text
\* Characters: a letter, a sentence end, and two kinds of whitespace.
Chars == {"a", ".", " ", "\n"}
IsSpace(c) == c \in {" ", "\n", "\t", "\r"}
IsEnd(c) == c \in {".", "!", "?"}

\* str.strip()
RECURSIVE LStrip(_)
LStrip(t) == IF t # <<>> /\ IsSpace(Head(t)) THEN LStrip(Tail(t)) ELSE t
RECURSIVE RStrip(_)
RStrip(t) == IF t # <<>> /\ IsSpace(t[Len(t)]) THEN RStrip(Front(t)) ELSE t
Strip(t) == RStrip(LStrip(t))

\* re.sub(r"\s+", " ", text): every run of whitespace becomes one space.
RECURSIVE Collapse(_)
Collapse(t) ==
    IF t = <<>> THEN <<>>
    ELSE IF IsSpace(Head(t)) THEN <<" ">> \o Collapse(LStrip(t))
    ELSE <<Head(t)>> \o Collapse(Tail(t))

\* re.split(r"(?<=[.!?])\s+", text): cut at every whitespace run that
\* follows a sentence end; cur is the piece being collected, prev the
\* character before t.
RECURSIVE SplitFrom(_, _, _)
SplitFrom(t, cur, prev) ==
    IF t = <<>> THEN <<cur>>
    ELSE IF IsSpace(Head(t)) /\ IsEnd(prev)
         THEN <<cur>> \o SplitFrom(LStrip(t), <<>>, " ")
    ELSE SplitFrom(Tail(t), Append(cur, Head(t)), Head(t))
Sentences(t) == SplitFrom(t, <<>>, "")

\* for s in sentences: if len(out) + len(s) > max_len: break
\*                     out += (" " if out else "") + s
RECURSIVE Accumulate(_, _, _)
Accumulate(ss, acc, L) ==
    IF ss = <<>> THEN acc
    ELSE IF Len(acc) + Len(Head(ss)) > L THEN acc
    ELSE Accumulate(Tail(ss), acc \o (IF acc # <<>> THEN <<" ">> ELSE <<>>) \o Head(ss), L)

summarize_text(t, L) == Strip(Accumulate(Sentences(Strip(Collapse(t))), <<>>, L))

\* -------------------------------------------------------- TextExtractor
\* A parser event is a start tag or an end tag with its lower-cased name, or
\* a run of text.  The parser state is [skip, segments].
StartEv(tag) == [data |-> <<>>, tag |-> tag, type |-> "start"]
EndEv(tag)   == [data |-> <<>>, tag |-> tag, type |-> "end"]
DataEv(d)    == [data |-> d, tag |-> "", type |-> "data"]

NewExtractor == [skip |-> 0, segments |-> <<>>]

handle_starttag(p, tag) ==
    IF tag \in SKIP_TAGS THEN [p EXCEPT !.skip = @ + 1] ELSE p

handle_endtag(p, tag) ==
    IF tag \in SKIP_TAGS /\ p.skip > 0 THEN [p EXCEPT !.skip = @ - 1] ELSE p

handle_data(p, data) ==
    IF p.skip = 0 /\ Strip(data) # <<>>
    THEN [p EXCEPT !.segments = Append(@, Strip(data))]
    ELSE p

Handle(p, e) ==
    CASE e.type = "start" -> handle_starttag(p, e.tag)
      [] e.type = "end"   -> handle_endtag(p, e.tag)
      [] e.type = "data"  -> handle_data(p, e.data)

RECURSIVE Feed(_, _)
Feed(p, evs) == IF evs = <<>> THEN p ELSE Feed(Handle(p, Head(evs)), Tail(evs))

\* " ".join(segments)
RECURSIVE Join(_)
Join(segs) ==
    IF segs = <<>> THEN <<>>
    ELSE IF Len(segs) = 1 THEN Head(segs)
    ELSE Head(segs) \o <<" ">> \o Join(Tail(segs))

extract_text(evs) == Join(Feed(NewExtractor, evs).segments)

\* ----------------------------------------------------------- get_markets
NoQuote == -1       \* quotes.get(sym) is None
Symbols == 1..Len(SYMBOLS)

SYMBOL_LABELS(sym) ==
    CASE sym = "SPY" -> "S&P 500 (SPY)"
      [] sym = "DIA" -> "Dow (DIA)"
      [] sym = "QQQ" -> "Nasdaq 100 (QQQ)"
      [] OTHER -> sym

\* f"{x:.2f}" of x = h / 100, h >= 0 (the thousands separators of ",.2f"
\* do not show below 1,000).
Fixed2(h) ==
    ToString(h \div 100) \o "." \o ToString((h % 100) \div 10) \o ToString(h % 10)
\* f"{pct:+.2f}" of pct = h / 100
Signed2(h) == IF h >= 0 THEN "+" \o Fixed2(h) ELSE "-" \o Fixed2(-h)

\* ((price - prev_close) / prev_close) * 100 in hundredths, rounded to the
\* nearest as the .2f format does.
PctHundredths(price, prev) ==
    (2 * (price - prev) * 10000 + prev) \div (2 * prev)

Unavailable(sym, why) ==
    [label |-> SYMBOL_LABELS(sym), value |-> "unavailable", change |-> why,
     direction |-> "flat"]

\* The body of the loop raises for this symbol: the previous close is 0.
SymbolRaises(q, b) == q > 0 /\ Len(b) >= 2 /\ b[Len(b) - 1] = 0

\* The entry the loop body appends for a symbol whose body does not raise.
Entry(sym, q, b) ==
    IF q # NoQuote /\ q # 0
    THEN IF Len(b) >= 2
         THEN LET prev == b[Len(b) - 1]
                  pct == PctHundredths(q, prev)
              IN  [label |-> SYMBOL_LABELS(sym),
                   value |-> "$" \o Fixed2(q * 100),
                   change |-> (IF pct > 0 THEN "up " ELSE IF pct < 0 THEN "down "
                               ELSE "flat ") \o Signed2(pct) \o "%",
                   direction |-> IF pct > 0 THEN "up" ELSE IF pct < 0 THEN "down"
                                 ELSE "flat"]
         ELSE [label |-> SYMBOL_LABELS(sym), value |-> "$" \o Fixed2(q * 100),
               change |-> "", direction |-> "flat"]
    ELSE Unavailable(sym, "")

\* for sym in SYMBOLS: ... from symbol i on; acc is `items`.  The result
\* tells whether the loop raised and what `items` holds then.
RECURSIVE MarketLoop(_, _, _, _)
MarketLoop(i, acc, qs, bs) ==
    IF i > Len(SYMBOLS) THEN [items |-> acc, raised |-> FALSE]
    ELSE IF SymbolRaises(qs[i], bs[i]) THEN [items |-> acc, raised |-> TRUE]
    ELSE MarketLoop(i + 1, Append(acc, Entry(SYMBOLS[i], qs[i], bs[i])), qs, bs)

\* except Exception as e: one placeholder per symbol, appended to `items`.
Placeholders(why) == [i \in Symbols |-> Unavailable(SYMBOLS[i], why)]

get_markets(qs, bs, f) ==
    IF f # "none" THEN Placeholders(f)
    ELSE LET r == MarketLoop(1, <<>>, qs, bs)
         IN  IF r.raised THEN r.items \o Placeholders("float division by zero")
             ELSE r.items

\* ------------------------------------------------------- get_market_news
\* An article of the news source: the number of its symbols and the length
\* of its summary (None when the attribute is None), its creation time
\* ("null" when None), and whether reading its attributes works at all.
Article(nsym, sumlen, when, ok) ==
    [nsymbols |-> nsym, sumlength |-> sumlen, created_at |-> when, sound |-> ok]
None == -1

\* The dict appended for one article: symbols[:4], the summary cut to
\* SummaryCut characters plus "..." when longer, "" for None.
ArticleEntry(n) ==
    [headline |-> "headline", source |-> "source",
     symbols |-> IF n.nsymbols = None THEN 0
                 ELSE IF n.nsymbols > 4 THEN 4 ELSE n.nsymbols,
     summary |-> IF n.sumlength = None THEN 0
                 ELSE IF n.sumlength > SummaryCut THEN SummaryCut + 3
                 ELSE n.sumlength,
     url |-> "url",
     created |-> n.created_at]

\* try: ... for n in result.data["news"][:5]: articles.append({...})
\* except Exception: return []
get_market_news(answer) ==
    IF answer.raises \/ \E i \in 1..Len(Prefix(answer.news, 5)) : ~answer.news[i].sound
    THEN <<>>
    ELSE [i \in 1..Len(Prefix(answer.news, 5)) |-> ArticleEntry(answer.news[i])]

\* ----------------------------------------------------------- get_weather
WEATHER_CODE_DESCRIPTIONS(c) ==
    CASE c = 0 -> "Clear sky" [] c = 1 -> "Mainly clear"
      [] c = 2 -> "Partly cloudy" [] c = 3 -> "Overcast"
      [] c = 45 -> "Fog" [] c = 48 -> "Rime fog"
      [] c = 51 -> "Light drizzle" [] c = 53 -> "Moderate drizzle"
      [] c = 55 -> "Dense drizzle" [] c = 61 -> "Light rain"
      [] c = 63 -> "Moderate rain" [] c = 65 -> "Heavy rain"
      [] c = 71 -> "Slight snow" [] c = 73 -> "Moderate snow"
      [] c = 75 -> "Heavy snow" [] c = 80 -> "Light showers"
      [] c = 81 -> "Moderate showers" [] c = 82 -> "Heavy showers"
      [] c = 95 -> "Thunderstorm"
      [] OTHER -> "Unknown"

\* A value of the forecast document: None (key absent, null, or an empty
\* daily list), NotANumber (a string), or a number given in tenths.
NotANumber == -2

\* f"{x:.0f}" of x = t / 10 >= 0: rounded to the nearest, ties to even.
Fixed0(t) ==
    LET q == t \div 10
        r == t % 10
    IN  ToString(IF r > 5 \/ (r = 5 /\ q % 2 = 1) THEN q + 1 ELSE q)

\* f"{x:.0f}F" if x is not None else None; a string raises ValueError.
FormatRaises(x) == x = NotANumber
Degrees(x) == IF x = None THEN "null" ELSE Fixed0(x) \o "F"
\* f"{precip}%" if precip is not None else None; a string formats too.
Percent(x) ==
    IF x = None THEN "null"
    ELSE IF x = NotANumber THEN "n/a%" ELSE ToString(x \div 10) \o "%"

\* The forecast document: fetched is whether fetch_json returns; current
\* and daily are "obj", "absent" or "null"; the other fields are values.
WeatherDoc(fetched, current, t, feels, code, daily, hi, lo, precip) ==
    [fetched |-> fetched, current |-> current, daily |-> daily,
     temperature_2m |-> t, apparent_temperature |-> feels,
     weather_code |-> code, temperature_2m_max |-> hi,
     temperature_2m_min |-> lo, precipitation_probability_max |-> precip]

\* current.get(key) and (daily.get(key) or [None])[0] on the document
InCurrent(doc, v) == IF doc.current = "obj" THEN v ELSE None
InDaily(doc, v) == IF doc.daily = "obj" THEN v ELSE None

WeatherUnavailable ==
    [location |-> LOCATION, conditions |-> "unavailable", temp |-> "absent",
     feelsLike |-> "absent", high |-> "absent", low |-> "absent",
     precipChance |-> "absent"]

\* get_weather raises: .get on a null `current` or `daily`, or the format
\* of a temperature that is not a number.
WeatherRaises(doc) ==
    /\ doc.fetched
    /\ \/ doc.current = "null"
       \/ doc.daily = "null"
       \/ FormatRaises(InCurrent(doc, doc.temperature_2m))
       \/ FormatRaises(InCurrent(doc, doc.apparent_temperature))
       \/ FormatRaises(InDaily(doc, doc.temperature_2m_max))
       \/ FormatRaises(InDaily(doc, doc.temperature_2m_min))

\* The dict get_weather returns when it does not raise.
get_weather(doc) ==
    IF ~doc.fetched THEN WeatherUnavailable
    ELSE [location |-> LOCATION,
          conditions |-> IF InCurrent(doc, doc.weather_code) # None
                         THEN WEATHER_CODE_DESCRIPTIONS(doc.weather_code) ELSE "Unknown",
          temp |-> Degrees(InCurrent(doc, doc.temperature_2m)),
          feelsLike |-> Degrees(InCurrent(doc, doc.apparent_temperature)),
          high |-> Degrees(InDaily(doc, doc.temperature_2m_max)),
          low |-> Degrees(InDaily(doc, doc.temperature_2m_min)),
          precipChance |-> Percent(InDaily(doc, doc.precipitation_probability_max))]

\* -------------------------------------------------------------- get_news
\* What a feed answers: whether get_feed_items returns a non-empty list,
\* and the title, description and link of its first item (<<>> for an
\* absent element); the description as the parser events of its HTML.
FeedAnswer(found, title, desc, link) ==
    [found |-> found, title |-> title, desc |-> desc, link |-> link]

NewsEntry(region, a) ==
    IF a.found
    THEN [headline |-> Strip(a.title),
          summary |-> IF a.desc # <<>>
                      THEN summarize_text(extract_text(a.desc), DefaultMaxLen)
                      ELSE <<>>,
          url |-> Strip(a.link),
          category |-> region]
    ELSE [headline |-> <<"unavailable">>, summary |-> <<>>, url |-> <<>>,
          category |-> region]

\* for region, url in STATE_FEEDS + [TECH_FEED]: ...
get_news(answers) == [i \in 1..Len(FEEDS) |-> NewsEntry(FEEDS[i], answers[i])]

\* -------------------------------------------------- archive file, merging
\* The kinds of content BRIEFS_FILE can hold.
Missing  == [kind |-> "missing", data |-> <<>>]

EmptyText == [kind |-> "empty", data |-> <<>>]

\* try: briefs = json.loads(BRIEFS_FILE.read_text())
\* except (FileNotFoundError, json.JSONDecodeError): briefs = []
\* A missing file raises FileNotFoundError, an empty text or one that is not
\* JSON raises JSONDecodeError; any JSON value loads as it is.
Loaded(f) ==
    IF f.kind \in {"missing", "empty", "garbage"} THEN Written(<<>>) ELSE f

\* Iterating the loaded value and calling b.get on its elements raises for
\* a number or null (not iterable), for a non-empty object (its keys are
\* strings) and for a list with an element that is not an object.
IterRaises(v) == v.kind \in {"scalar", "dict", "badlist"}
Elements(v) == IF v.kind = "list" THEN v.data ELSE <<>>

\* [b for b in briefs if b.get("date") != today_str]
FilterOut(list, d) == SelectSeq(list, LAMBDA b : b.date # d)

\* list.sort(key=lambda b: b.get("date", ""), reverse=True): a stable sort,
\* equal keys keep their order.
InsertDesc(sorted, b) ==
    LET n == Cardinality({i \in 1..Len(sorted) : sorted[i].date >= b.date})
    IN  SubSeq(sorted, 1, n) \o <<b>> \o SubSeq(sorted, n + 1, Len(sorted))

RECURSIVE SortDesc(_)
SortDesc(list) ==
    IF list = <<>> THEN <<>>
    ELSE InsertDesc(SortDesc(Front(list)), list[Len(list)])

\* briefs[:MAX_ENTRIES]
Truncate(list) == Prefix(list, MAX_ENTRIES)

\* The merge without its truncation, without its filter, without its sort.
MergeBriefNoTruncate(list, b) == SortDesc(Append(FilterOut(list, b.date), b))
MergeBriefNoFilter(list, b) == Truncate(SortDesc(Append(list, b)))
MergeBriefNoSort(list, b) == Truncate(Append(FilterOut(list, b.date), b))

\* The filter / append / sort / truncate steps of main().
MergeBrief(list, b) == Truncate(SortDesc(Append(FilterOut(list, b.date), b)))

DatesOf(list) == {list[i].date : i \in 1..Len(list)}

\* The record main() builds on date d at time g when no builder has
\* anything to report (its content other than the date does not matter to
\* the merge).
PlainBrief(d, g) == [date |-> d, generatedAt |-> g, markets |-> <<>>,
                     marketNews |-> <<>>, weather |-> WeatherUnavailable,
                     news |-> <<>>]

\* ---------------------------------------------------- idle parts of state
IdleArchive == merged = {} /\ dropped = FALSE /\ replaced = FALSE
IdleMain == pc = "idle" /\ today = NoDate /\ brief = NoBrief
            /\ briefs = Written(<<>>) /\ raisedAt = "none" /\ faults = 0
IdleSumm == text = <<>> /\ max_len = 0 /\ out = NotRun
IdleMarkets == quotes = <<>> /\ bars = <<>> /\ fault = "none" /\ items = <<>>
IdleParser == skip = 0 /\ segments = <<>> /\ events = <<>>
IdleConc == cpc = <<>> /\ cbriefs = <<>> /\ tornRead = FALSE

\* ------------------------------------------- Spec: a sequence of merges
\* One run of main() whose builders all answer, on run date d, generated
\* for the g-th time that day: read, merge, write.
Run(d, g) ==
    /\ \/ d \in merged
       \/ d <= MaxLate
       \/ d = SetMax(merged \cup {MaxLate}) + 1
    /\ g > 0 => d <= MaxRegen
    /\ ~IterRaises(Loaded(file))
    /\ LET b == PlainBrief(d, g)
           old == Elements(Loaded(file))
           new == MergeBrief(old, b)
       IN  /\ file' = Written(new)
           /\ dropped' = (b \notin Range(new))
           /\ replaced' = (\E o \in Range(old) : o.date = d /\ o # b)
    /\ merged' = merged \cup {d}
    /\ UNCHANGED <<orig, mainVars, summVars, marketVars, parserVars, concVars>>

Init ==
    /\ file \in {Missing, EmptyText, Written(<<>>)}
    /\ orig = file
    /\ IdleArchive /\ IdleMain /\ IdleSumm /\ IdleMarkets /\ IdleParser
    /\ IdleConc

Next == \E d \in 1..MaxDate, g \in 0..1 : Run(d, g)

Spec == Init /\ [][Next]_vars

\* What the quote and bars source can answer.
AskPrices == {NoQuote} \cup (0..MaxPrice)
BarCloses == {<<>>, <<1>>} \cup {<<c, 1>> : c \in 0..MaxPrice}
BatchFaults == {"quote fetch failed", "bars fetch failed"}

\* ------------------------------------------------ SpecMain: one run of main()
\* What the sources answer in a run.  The ordinary answer of each is the
\* first one; every other answer counts as one fault of the run.
OrdinaryQuote == <<1, <<1, 1>>>>
SymbolAnswers == {<<q, b>> : q \in {NoQuote, 1}, b \in {<<>>, <<0, 1>>, <<1, 1>>}}
OrdinaryMarkets ==
    <<[i \in Symbols |-> OrdinaryQuote[1]], [i \in Symbols |-> OrdinaryQuote[2]], "none">>
MarketAnswers ==
    {OrdinaryMarkets}
    \cup {<<[OrdinaryMarkets[1] EXCEPT ![k] = a[1]],
            [OrdinaryMarkets[2] EXCEPT ![k] = a[2]], "none">> :
             k \in Symbols, a \in SymbolAnswers}
    \cup {<<OrdinaryMarkets[1], OrdinaryMarkets[2], f>> : f \in BatchFaults}

OrdinaryArticle == Article(2, 100, "2026-01-01T00:00:00", TRUE)
OrdinaryMarketNews == [news |-> <<OrdinaryArticle>>, raises |-> FALSE]
MarketNewsAnswers ==
    {OrdinaryMarketNews, [news |-> <<>>, raises |-> TRUE],
     [news |-> <<>>, raises |-> FALSE],
     [news |-> [i \in 1..6 |-> OrdinaryArticle], raises |-> FALSE]}
    \cup {[news |-> <<n>>, raises |-> FALSE] :
             n \in {Article(None, 100, "2026-01-01T00:00:00", TRUE),
                    Article(5, 100, "2026-01-01T00:00:00", TRUE),
                    Article(2, None, "2026-01-01T00:00:00", TRUE),
                    Article(2, SummaryCut + 1, "2026-01-01T00:00:00", TRUE),
                    Article(2, 100, "null", TRUE),
                    Article(2, 100, "2026-01-01T00:00:00", FALSE)}}

OrdinaryWeather == WeatherDoc(TRUE, "obj", 716, 725, 3, "obj", 800, 600, 200)
WeatherAnswers ==
    {OrdinaryWeather, [OrdinaryWeather EXCEPT !.fetched = FALSE]}
    \cup {[OrdinaryWeather EXCEPT !.current = v] : v \in {"absent", "null"}}
    \cup {[OrdinaryWeather EXCEPT !.daily = v] : v \in {"absent", "null"}}
    \cup {[OrdinaryWeather EXCEPT !.weather_code = v] : v \in {None, 99}}
    \cup {[OrdinaryWeather EXCEPT !.temperature_2m = v] : v \in {None, NotANumber}}
    \cup {[OrdinaryWeather EXCEPT !.apparent_temperature = v] : v \in {None, NotANumber}}
    \cup {[OrdinaryWeather EXCEPT !.temperature_2m_max = v] : v \in {None, NotANumber}}
    \cup {[OrdinaryWeather EXCEPT !.temperature_2m_min = v] : v \in {None, NotANumber}}
    \cup {[OrdinaryWeather EXCEPT !.precipitation_probability_max = v] : v \in {None, NotANumber}}

OrdinaryFeed == FeedAnswer(TRUE, <<"t">>, <<DataEv(<<"a", ".">>)>>, <<"u">>)
FeedAnswers ==
    {OrdinaryFeed,
     FeedAnswer(FALSE, <<>>, <<>>, <<>>),
     FeedAnswer(TRUE, <<>>, <<DataEv(<<"a", ".">>)>>, <<"u">>),
     FeedAnswer(TRUE, <<" ", "t">>, <<>>, <<"u">>),
     FeedAnswer(TRUE, <<"t">>,
                <<StartEv("script"), DataEv(<<"x">>), EndEv("script"),
                  DataEv(<<"a", ".", " ", "a">>)>>, <<>>)}
NewsAnswers ==
    {[[i \in 1..Len(FEEDS) |-> OrdinaryFeed] EXCEPT ![k] = a] :
        k \in 1..Len(FEEDS), a \in FeedAnswers}

Cost(answer, ordinary) == IF answer = ordinary THEN 0 ELSE 1

\* An exception escapes main() at the step named.
Raise(step) ==
    /\ pc' = "raised" /\ raisedAt' = step
    /\ UNCHANGED <<file, today, brief, briefs>>

BuildMarkets ==
    /\ pc = "get_markets"
    /\ \E a \in MarketAnswers :
          /\ faults + Cost(a, OrdinaryMarkets) <= MaxFaults
          /\ faults' = faults + Cost(a, OrdinaryMarkets)
          /\ brief' = [brief EXCEPT !.markets = get_markets(a[1], a[2], a[3])]
    /\ pc' = "get_market_news"
    /\ UNCHANGED <<file, orig, today, briefs, raisedAt, archiveVars, summVars,
                   marketVars, parserVars, concVars>>

BuildMarketNews ==
    /\ pc = "get_market_news"
    /\ \E a \in MarketNewsAnswers :
          /\ faults + Cost(a, OrdinaryMarketNews) <= MaxFaults
          /\ faults' = faults + Cost(a, OrdinaryMarketNews)
          /\ brief' = [brief EXCEPT !.marketNews = get_market_news(a)]
    /\ pc' = "get_weather"
    /\ UNCHANGED <<file, orig, today, briefs, raisedAt, archiveVars, summVars,
                   marketVars, parserVars, concVars>>

BuildWeather ==
    /\ pc = "get_weather"
    /\ \E doc \in WeatherAnswers :
          /\ faults + Cost(doc, OrdinaryWeather) <= MaxFaults
          /\ faults' = faults + Cost(doc, OrdinaryWeather)
          /\ IF WeatherRaises(doc)
             THEN Raise("get_weather")
             ELSE /\ brief' = [brief EXCEPT !.weather = get_weather(doc)]
                  /\ pc' = "get_news"
                  /\ UNCHANGED <<file, today, briefs, raisedAt>>
    /\ UNCHANGED <<orig, archiveVars, summVars, marketVars, parserVars, concVars>>

BuildNews ==
    /\ pc = "get_news"
    /\ \E a \in NewsAnswers :
          /\ faults + Cost(a, [i \in 1..Len(FEEDS) |-> OrdinaryFeed]) <= MaxFaults
          /\ faults' = faults + Cost(a, [i \in 1..Len(FEEDS) |-> OrdinaryFeed])
          /\ brief' = [brief EXCEPT !.news = get_news(a)]
    /\ pc' = "read"
    /\ UNCHANGED <<file, orig, today, briefs, raisedAt, archiveVars, summVars,
                   marketVars, parserVars, concVars>>

\* try: briefs = json.loads(BRIEFS_FILE.read_text()) except ...: briefs = []
ReadArchive ==
    /\ pc = "read"
    /\ briefs' = Loaded(file)
    /\ pc' = "merge"
    /\ UNCHANGED <<file, orig, today, brief, raisedAt, faults, archiveVars,
                   summVars, marketVars, parserVars, concVars>>

\* The filter, append, sort and truncate, and the write of the file.
MergeWrite ==
    /\ pc = "merge"
    /\ IF IterRaises(briefs)
       THEN Raise("merge")
       ELSE /\ briefs' = Written(MergeBrief(Elements(briefs), brief))
            /\ file' = briefs'
            /\ pc' = "done"
            /\ UNCHANGED <<today, brief, raisedAt>>
    /\ UNCHANGED <<orig, faults, archiveVars, summVars, marketVars, parserVars,
                   concVars>>

RECURSIVE ListsUpTo(_, _)
ListsUpTo(S, n) ==
    IF n = 0 THEN {<<>>}
    ELSE LET L == ListsUpTo(S, n - 1)
         IN  L \cup {Append(l, x) : l \in {u \in L : Len(u) = n - 1}, x \in S}

\* The contents the archive file can have before a run: absent, not JSON,
\* JSON that is not a list of records, or a list of records of any dates.
Files ==
    {Missing, EmptyText}
    \cup {[kind |-> k, data |-> <<>>] :
             k \in {"garbage", "emptydict", "dict", "scalar", "badlist"}}
    \cup {Written(l) : l \in ListsUpTo({PlainBrief(d, 0) : d \in NoDate..MaxDay}, MaxFile)}

InitMain ==
    /\ file \in Files /\ orig = file
    /\ today \in 1..MaxDay
    /\ pc = "get_markets"
    /\ brief = [NoBrief EXCEPT !.date = today, !.generatedAt = 1]
    /\ briefs = Written(<<>>) /\ raisedAt = "none" /\ faults = 0
    /\ IdleArchive /\ IdleSumm /\ IdleMarkets /\ IdleParser /\ IdleConc

NextMain ==
    \/ BuildMarkets
    \/ BuildMarketNews
    \/ BuildWeather
    \/ BuildNews
    \/ ReadArchive
    \/ MergeWrite

SpecMain == InitMain /\ [][NextMain]_vars

\* ------------------------- SpecConc: overlapping runs on one archive file
\* Each run has built its record (of the same run date, generated at its
\* own time) and goes through the read of the file and the write_text,
\* which opens the file for writing, truncating it, and then writes the
\* whole text.
Runs == 1..MaxRuns
RunBrief(p) == PlainBrief(today, p)

\* What a run holds after the read and the merge of its record.
ReadMerge(f, b) == MergeBrief(Elements(Loaded(f)), b)

CRead(p) ==
    /\ cpc[p] = "read"
    /\ ~IterRaises(Loaded(file))
    /\ cbriefs' = [cbriefs EXCEPT ![p] = ReadMerge(file, RunBrief(p))]
    /\ tornRead' = (tornRead \/ \E q \in Runs : cpc[q] = "write")
    /\ cpc' = [cpc EXCEPT ![p] = "open"]
    /\ UNCHANGED <<file, orig, archiveVars, mainVars, summVars, marketVars,
                   parserVars>>

\* open(BRIEFS_FILE, "w"): the file is truncated.
COpen(p) ==
    /\ cpc[p] = "open"
    /\ file' = EmptyText
    /\ cpc' = [cpc EXCEPT ![p] = "write"]
    /\ UNCHANGED <<orig, cbriefs, tornRead, archiveVars, mainVars, summVars,
                   marketVars, parserVars>>

\* f.write(json.dumps(briefs, indent=2) + "\n") and close
CWrite(p) ==
    /\ cpc[p] = "write"
    /\ file' = Written(cbriefs[p])
    /\ cpc' = [cpc EXCEPT ![p] = "done"]
    /\ UNCHANGED <<orig, cbriefs, tornRead, archiveVars, mainVars, summVars,
                   marketVars, parserVars>>

\* The archives main() leaves on disk: unique by date, newest first.
StrictlyDescending(list) ==
    \A i \in 1..Len(list) - 1 : list[i].date > list[i + 1].date
Archives ==
    {l \in ListsUpTo({PlainBrief(d, 0) : d \in 1..MaxDay}, MaxFile) :
        StrictlyDescending(l)}

InitConc ==
    /\ file \in {Missing} \cup {Written(l) : l \in Archives}
    /\ orig = file
    /\ today \in 1..MaxDay
    /\ cpc = [p \in Runs |-> "read"]
    /\ cbriefs = [p \in Runs |-> <<>>]
    /\ tornRead = FALSE
    /\ pc = "idle" /\ brief = NoBrief /\ briefs = Written(<<>>)
    /\ raisedAt = "none" /\ faults = 0
    /\ IdleArchive /\ IdleSumm /\ IdleMarkets /\ IdleParser

NextConc ==
    \E p \in Runs : CRead(p) \/ COpen(p) \/ CWrite(p)

SpecConc == InitConc /\ [][NextConc]_vars

\* ------------------------------------- SpecSumm: calls of summarize_text
RECURSIVE TextsUpTo(_)
TextsUpTo(n) ==
    IF n = 0 THEN {<<>>}
    ELSE LET S == TextsUpTo(n - 1)
         IN  S \cup {Append(t, c) : t \in {u \in S : Len(u) = n - 1}, c \in Chars}

Summarize ==
    /\ out = NotRun
    /\ out' = summarize_text(text, max_len)
    /\ UNCHANGED <<file, orig, archiveVars, mainVars, text, max_len, marketVars,
                   parserVars, concVars>>

InitSumm ==
    /\ text \in TextsUpTo(MaxText)
    /\ max_len \in 0..MaxBudget
    /\ out = NotRun
    /\ file = Missing /\ orig = file
    /\ IdleArchive /\ IdleMain /\ IdleMarkets /\ IdleParser /\ IdleConc

NextSumm == Summarize

SpecSumm == InitSumm /\ [][NextSumm]_vars

\* ------------------------------------------ SpecMarkets: get_markets()
GetMarkets ==
    /\ items = <<>>
    /\ items' = get_markets(quotes, bars, fault)
    /\ UNCHANGED <<file, orig, archiveVars, mainVars, summVars, quotes, bars, fault,
                   parserVars, concVars>>

InitMarkets ==
    /\ quotes \in [Symbols -> AskPrices]
    /\ bars \in [Symbols -> BarCloses]
    /\ fault \in {"none"} \cup BatchFaults
    /\ items = <<>>
    /\ file = Missing /\ orig = file
    /\ IdleArchive /\ IdleMain /\ IdleSumm /\ IdleParser /\ IdleConc

NextMarkets == GetMarkets

SpecMarkets == InitMarkets /\ [][NextMarkets]_vars

\* C5: get_markets() returns exactly one entry per configured symbol, in
\* the order of SYMBOLS, whatever the source answers or raises; when the
\* batch fetch raises every entry has the value "unavailable".
OneEntryPerSymbol ==
    items # <<>> =>
        /\ Len(items) = Len(SYMBOLS)
        /\ \A i \in 1..Len(items) :
              /\ i <= Len(SYMBOLS) => items[i].label = SYMBOL_LABELS(SYMBOLS[i])
              /\ fault # "none" => items[i].value = "unavailable"

\* The data of symbol i is good: a quote with an ask price, and a loop body
\* that does not raise.
GoodData(i) == quotes[i] > 0 /\ ~SymbolRaises(quotes[i], bars[i])

\* C6: when the batch fetch succeeds and the data of exactly one symbol is
\* missing or makes its processing fail, that symbol's entry is the
\* "unavailable" placeholder and every sibling's entry is the one its own
\* data gives.
SiblingsIsolated ==
    \A k \in Symbols :
        (/\ items # <<>> /\ fault = "none"
         /\ ~GoodData(k)
         /\ \A i \in Symbols \ {k} : GoodData(i))
        => /\ Len(items) = Len(SYMBOLS)
           /\ items[k].value = "unavailable"
           /\ \A i \in Symbols \ {k} :
                 items[i] = Entry(SYMBOLS[i], quotes[i], bars[i])

\* --------------------------------- SpecExtract: events of a TextExtractor
Tags == {"svg", "head", "p"}
Datas == {<<"a">>, <<" ", "b">>, <<" ">>}

Emit(e) ==
    /\ Len(events) < MaxEvents
    /\ LET q == Handle([skip |-> skip, segments |-> segments], e)
       IN  skip' = q.skip /\ segments' = q.segments
    /\ events' = Append(events, e)
    /\ UNCHANGED <<file, orig, archiveVars, mainVars, summVars, marketVars, concVars>>

StartTag(tag) == Emit(StartEv(tag))
EndTag(tag) == Emit(EndEv(tag))
Data(d) == Emit(DataEv(d))

InitExtract ==
    /\ skip = NewExtractor.skip /\ segments = NewExtractor.segments
    /\ events = <<>>
    /\ file = Missing /\ orig = file
    /\ IdleArchive /\ IdleMain /\ IdleSumm /\ IdleMarkets /\ IdleConc

NextExtract ==
    \/ \E tag \in Tags : StartTag(tag)
    \/ \E tag \in Tags : EndTag(tag)
    \/ \E d \in Datas : Data(d)

SpecExtract == InitExtract /\ [][NextExtract]_vars

\* The number of elements of a tag that are open after the events evs:
\* start tags seen whose own end tag is not yet seen.
RECURSIVE OpenCount(_, _)
OpenCount(evs, tag) ==
    IF evs = <<>> THEN 0
    ELSE LET n == OpenCount(Front(evs), tag)
             e == evs[Len(evs)]
         IN  IF e.tag # tag THEN n
             ELSE IF e.type = "start" THEN n + 1
             ELSE IF e.type = "end" /\ n > 0 THEN n - 1
             ELSE n
InsideSkip(evs) == \E tag \in SKIP_TAGS : OpenCount(evs, tag) > 0

\* The text events of evs that occur outside every open skip-tag element,
\* trimmed, in document order.
RECURSIVE OutsideText(_)
OutsideText(evs) ==
    IF evs = <<>> THEN <<>>
    ELSE LET e == evs[Len(evs)]
             before == OutsideText(Front(evs))
         IN  IF e.type = "data" /\ Strip(e.data) # <<>> /\ ~InsideSkip(Front(evs))
             THEN Append(before, Strip(e.data))
             ELSE before

\* C9: text seen while a skip-tag element is open is never added to the
\* segments, text outside every skip-tag element is output in document
\* order, and the skip depth never goes below zero.
SkipTagsExcluded == segments = OutsideText(events) /\ skip >= 0

\* The n greatest elements of a set of dates.
TopDates(S, n) == {d \in S : Cardinality({e \in S : e > d}) < n}

\* C1: after every merge of a sequence of merges that starts from an empty
\* or missing archive, the archive has at most MAX_ENTRIES entries and the
\* dates it holds are exactly the MAX_ENTRIES greatest distinct dates merged
\* so far (all of them when fewer were merged).
CapInvariant ==
    merged # {} =>
        /\ file.kind = "list"
        /\ Len(file.data) <= MAX_ENTRIES
        /\ DatesOf(file.data) = TopDates(merged, MAX_ENTRIES)

\* More than MAX_ENTRIES distinct dates were merged and the latest merge,
\* of a date below all retained ones, lost its record to the cap.
CapReached == Cardinality(merged) > MAX_ENTRIES /\ dropped

\* C3: merging a record r for date D into the archive and then merging r
\* again yields the same list as merging it once; the list never holds two
\* entries for D, and the entry it holds for D is r in full.
MergeIdempotent ==
    \A d \in 1..MaxDate, g \in 0..1 :
        LET r == PlainBrief(d, g)
            once == MergeBrief(Elements(Loaded(file)), r)
            twice == MergeBrief(once, r)
        IN  /\ twice = once
            /\ Cardinality({i \in 1..Len(twice) : twice[i].date = d}) <= 1
            /\ \A i \in 1..Len(twice) : twice[i].date = d => twice[i] = r

\* C2 as stated: every list main() writes is strictly descending by date,
\* whatever list of records it read from the file.
WrittenStrictlyDescending == pc = "done" => StrictlyDescending(file.data)

\* The records of a list other than those of date d carry a date each, and
\* pairwise different ones.
OthersDistinct(list, d) ==
    \A i \in 1..Len(list) :
        list[i].date # d =>
            /\ list[i].date # NoDate
            /\ \A j \in 1..Len(list) : j # i => list[j].date # list[i].date

\* C2, amended: when the records read from the file, other than those of
\* the run date, carry pairwise different dates, the list main() writes is
\* unique by date and strictly descending by date.
WrittenDescendingIfDistinct ==
    (pc = "done" /\ OthersDistinct(Elements(Loaded(orig)), today))
        => StrictlyDescending(file.data)

\* A run has written after it read a full list of distinct dates that was
\* in ascending order and held a record of the run date.
UnsortedFileMerged ==
    /\ pc = "done"
    /\ Len(orig.data) = MaxFile
    /\ \A i \in 1..Len(orig.data) - 1 : orig.data[i].date < orig.data[i + 1].date
    /\ OthersDistinct(orig.data, today)
    /\ today \in DatesOf(orig.data)
    /\ Len(file.data) = MaxFile

\* C7: no answer of an upstream source makes a builder raise, so main()
\* reaches the archive write and writes the record of the run date.
UpstreamNeverAborts ==
    /\ pc = "raised" =>
          raisedAt \notin {"get_markets", "get_market_news", "get_weather", "get_news"}
    /\ pc = "done" => brief \in Range(file.data)

\* C8: when the file is absent, is not JSON or does not hold a list of
\* records, main() does not raise and writes exactly the new record.
CorruptArchiveIsEmpty ==
    orig.kind # "list" =>
        /\ pc = "raised" => raisedAt # "merge"
        /\ pc = "done" => file = Written(<<brief>>)

\* C10: no run reads the file while another run has it truncated, and when
\* all overlapping runs are done the file is an archive that holds every
\* entry of the earlier dates it held before and a record of the run date.
ConcurrentRunsKeepArchive ==
    /\ ~tornRead
    /\ (\A p \in Runs : cpc[p] = "done") =>
          /\ file.kind = "list"
          /\ StrictlyDescending(file.data)
          /\ \A o \in Range(Elements(Loaded(orig))) :
                o.date # today => o \in Range(file.data)
          /\ today \in DatesOf(file.data)

\* C4: the string summarize_text(text, L) returns has length at most L.
SummarizerBound == out # NotRun => Len(out) <= max_len

\* The latest merge replaced an entry of its date that had other content,
\* in an archive that holds other days too.
ReplacedEntry == replaced /\ Len(file.data) > 1 /\ ~dropped

====
